---- MODULE Spec2Model ----
(***************************************************************************)
(* A model of the tournament simulator: the probability model (math.rs),   *)
(* the stage simulators (component.rs: BestOfN, GroupStage with its         *)
(* recursive tie-break, identify_tied_teams), the pairwise win rule         *)
(* (main.rs: Team) and the plan resolver and trial runner (runner.rs).      *)
(*                                                                          *)
(* Positions, stage indices and spans are 0-based as in the source; a Rust  *)
(* slice s is the TLA+ sequence whose element i+1 is s[i].                  *)
(***************************************************************************)
EXTENDS Integers, Sequences, FiniteSets, TLC

VARIABLES
    \* ---- Runner (runner.rs) and its caller (main.rs) ----
    tournament,     \* the parsed definition handed to Runner::new
    pc,             \* position of the program
    components,     \* Runner.components: the resolved stages
    scoring,        \* Runner.scoring: the resolved scoring entries
    placements,     \* Runner.placements: the PlacementTable
    stage,          \* loop index of Runner::run over self.components
    entrants,       \* the `teams` argument of the current get_score_result
    outputs,        \* the stage outputs computed in the current trial
    trials,         \* number of get_score_result calls started
    panic,          \* "none", or the message of the panic that ended the run
    score,          \* the ScoreResult of the last completed trial
    \* ---- Component::run (component.rs) ----
    ctype,          \* self.type of the component being run
    input,          \* the slice `input` the component permutes in place
    orig,           \* the slice as it was handed to Component::run
    pending,        \* spans GroupStage::run is still to be called on, in call order
    num_games_won,  \* the table of the outermost GroupStage::run
    lastRun,        \* what the latest GroupStage::run body produced
    replays,        \* complete ties so far in this Component::run
                    \* (saturates at MaxReplays)
    ties,           \* the value identify_tied_teams returned
    \* ---- pure functions (math.rs, main.rs) ----
    call,           \* the function applied and its arguments
    ret             \* its value

vars == <<tournament, pc, components, scoring, placements, stage, entrants,
          outputs, trials, panic, score, ctype, input, orig, pending,
          num_games_won, lastRun, replays, ties, call, ret>>

runnerVars == <<tournament, components, scoring, placements, stage, entrants,
                outputs, trials, score>>
stageVars == <<ctype, input, orig, pending, num_games_won, lastRun, replays>>
pureVars == <<call, ret>>

(***************************************************************************)
(* Bounds of the model.                                                     *)
(***************************************************************************)
MaxGames == 15          \* series lengths n of the probability model: 0..MaxGames
MaxDen == 4             \* probabilities p = a/b with 1 <= b <= MaxDen
MaxTeams == 4           \* competitors handed to one stage
MaxGamesPerSeries == 2  \* num_games_per_series of a group stage
MaxRoundRobinGames == 6 \* games of one round robin of a stage's whole input
MaxSeriesGames == 3     \* num_games of BestOfN(n)
MaxReplays == 2         \* where the count of complete ties saturates
MaxLen == 4             \* length of the slice given to identify_tied_teams
MaxWins == 2            \* win counts given to identify_tied_teams
MaxTrials == 2          \* get_score_result calls per behaviour
UDen == 2               \* the uniform draw u ranges over 0/UDen .. UDen/UDen

(***************************************************************************)
(* Program constants.                                                       *)
(***************************************************************************)
UsizeBits == 64
ProbDen == 100                  \* probabilities are numerators over ProbDen
STRONG_TEAM_ADVANTAGE == 5      \* 0.05
Half == ProbDen \div 2          \* 0.5

(***************************************************************************)
(* Natural numbers of any size, as little-endian digit sequences in base    *)
(* Base with no leading zero digit (0 is <<>>): the products of math.rs     *)
(* reach 15! and the tail numerators 100^n, beyond TLC's 32-bit integers.   *)
(***************************************************************************)
Base == 10 ^ 4

RECURSIVE BigOf(_)
BigOf(x) == IF x = 0 THEN <<>> ELSE <<x % Base>> \o BigOf(x \div Base)

RECURSIVE BigMulC(_, _, _)
BigMulC(x, m, carry) ==
    IF x = <<>> THEN BigOf(carry)
    ELSE LET t == Head(x) * m + carry
         IN  <<t % Base>> \o BigMulC(Tail(x), m, t \div Base)

\* x * m for a small m (m < 2 * 10^5 keeps every digit product in range)
BigMul(x, m) == IF m = 0 THEN <<>> ELSE BigMulC(x, m, 0)

RECURSIVE BigAddC(_, _, _)
BigAddC(x, y, carry) ==
    IF x = <<>> /\ y = <<>> THEN BigOf(carry)
    ELSE LET dx == IF x = <<>> THEN 0 ELSE Head(x)
             dy == IF y = <<>> THEN 0 ELSE Head(y)
             t == dx + dy + carry
         IN  <<t % Base>> \o BigAddC(IF x = <<>> THEN x ELSE Tail(x),
                                     IF y = <<>> THEN y ELSE Tail(y),
                                     t \div Base)

BigAdd(x, y) == BigAddC(x, y, 0)

RECURSIVE BigCmpFrom(_, _, _)
BigCmpFrom(x, y, i) ==
    IF i = 0 THEN 0
    ELSE IF x[i] < y[i] THEN -1
    ELSE IF x[i] > y[i] THEN 1
    ELSE BigCmpFrom(x, y, i - 1)

BigCmp(x, y) ==
    IF Len(x) < Len(y) THEN -1
    ELSE IF Len(x) > Len(y) THEN 1
    ELSE BigCmpFrom(x, y, Len(x))

BigLeq(x, y) == BigCmp(x, y) <= 0
BigLess(x, y) == BigCmp(x, y) < 0

RECURSIVE BigPow(_, _)
BigPow(b, e) == IF e = 0 THEN <<1>> ELSE BigMul(BigPow(b, e - 1), b)

\* x * b^e
RECURSIVE BigMulPow(_, _, _)
BigMulPow(x, b, e) == IF e = 0 THEN x ELSE BigMulPow(BigMul(x, b), b, e - 1)

\* floor(a / b) for b > 0, found between lo and hi (lo * b <= a < hi * b)
RECURSIVE BigDivSearch(_, _, _, _)
BigDivSearch(a, b, lo, hi) ==
    IF hi - lo <= 1 THEN lo
    ELSE LET mid == (lo + hi) \div 2
         IN  IF BigLeq(BigMul(b, mid), a)
             THEN BigDivSearch(a, b, mid, hi)
             ELSE BigDivSearch(a, b, lo, mid)

QuotientCap == 2 ^ 17

\* floor(a / b) as an integer; -1 when it is not below QuotientCap
BigDiv(a, b) ==
    IF BigLeq(BigMul(b, QuotientCap), a) THEN -1
    ELSE BigDivSearch(a, b, 0, QuotientCap)

(***************************************************************************)
(* math.rs                                                                  *)
(***************************************************************************)
\* (lo..=hi).product::<usize>() before any wrap-around
RECURSIVE Product(_, _)
Product(lo, hi) == IF lo > hi THEN <<1>> ELSE BigMul(Product(lo + 1, hi), lo)

\* 2^UsizeBits, in steps of 16 bits
UsizeRange == BigPow(2 ^ 16, UsizeBits \div 16)

\* whether a usize holds x
FitsUsize(x) == BigLess(x, UsizeRange)

binomialOverflows(n, k) ==
    ~FitsUsize(Product(n - k + 1, n)) \/ ~FitsUsize(Product(1, k))

binomial(n, k) == BigDiv(Product(n - k + 1, n), Product(1, k))

\* binomial_distribution(a/b, n, k) * b^n
binomial_distribution(a, b, n, k) ==
    BigMulPow(BigMulPow(BigOf(binomial(n, k)), a, n - k), b - a, k)

\* the sum BestOfN::run takes over k = 0..=(n-1)/2, times b^n
RECURSIVE TotalUpTo(_, _, _, _)
TotalUpTo(a, b, n, k) ==
    IF k < 0 THEN <<>>
    ELSE BigAdd(TotalUpTo(a, b, n, k - 1), binomial_distribution(a, b, n, k))

\* the upper end of the sum one too far
MajorityUpperPlusOne(n) == (n + 1) \div 2

MajorityUpper(n) == (n - 1) \div 2

Total(a, b, n) == TotalUpTo(a, b, n, MajorityUpper(n))

(***************************************************************************)
(* main.rs: Team                                                            *)
(***************************************************************************)
Team(i, s) == [index |-> i, strong |-> s]

\* Team::probability_to_win_against, as a numerator over ProbDen
probability_to_win_against(self, other) ==
    IF self.strong THEN Half + STRONG_TEAM_ADVANTAGE
    ELSE IF other.strong THEN Half - STRONG_TEAM_ADVANTAGE
    ELSE Half

(***************************************************************************)
(* Helpers on sets and sequences.                                           *)
(***************************************************************************)
Range(s) == {s[i] : i \in 1..Len(s)}
MinOf(S) == CHOOSE x \in S : \A y \in S : x <= y
MaxOf(S) == CHOOSE x \in S : \A y \in S : x >= y
Count(s, x) == Cardinality({i \in 1..Len(s) : s[i] = x})

RECURSIVE SumOver(_, _)
SumOver(S, f) ==
    IF S = {} THEN 0
    ELSE LET x == CHOOSE y \in S : TRUE IN f[x] + SumOver(S \ {x}, f)

(***************************************************************************)
(* component.rs: identify_tied_teams and sorted                             *)
(***************************************************************************)
\* sorted(teams, num_games_won)
sorted(teams, won) ==
    \A i \in 1..(Len(teams) - 1) :
        won[teams[i].index] >= won[teams[i + 1].index]

\* .enumerate().group_by(|(_, team)| num_games_won[&team.index]): consecutive
\* (position, team) items sharing a key, from item i on, appended to acc
RECURSIVE group_by(_, _, _, _)
group_by(teams, won, i, acc) ==
    IF i > Len(teams) THEN acc
    ELSE LET item == [pos |-> i - 1, team |-> teams[i]]
             n == Len(acc)
         IN  IF n > 0 /\ won[acc[n][1].team.index] = won[teams[i].index]
             THEN group_by(teams, won, i + 1, [acc EXCEPT ![n] = Append(@, item)])
             ELSE group_by(teams, won, i + 1, Append(acc, <<item>>))

\* the filter with >= 1 for > 1
IsTiedGroupLoose(group) == Len(group) >= 1

\* .filter(|group| group.len() > 1)
IsTiedGroup(group) == Len(group) > 1

\* TiedTeams { start_index, end_index, teams } of one group
TiedTeams(group) ==
    [teams |-> [i \in 1..Len(group) |-> group[i].team.index],
     start_index |-> MinOf({group[i].pos : i \in 1..Len(group)}),
     end_index |-> MaxOf({group[i].pos : i \in 1..Len(group)})]

identify_tied_teams(teams, won) ==
    LET groups == SelectSeq(group_by(teams, won, 1, <<>>), IsTiedGroup)
    IN  [i \in 1..Len(groups) |-> TiedTeams(groups[i])]

(***************************************************************************)
(* component.rs: GroupStage                                                 *)
(***************************************************************************)
\* the pairs (i, team1), (team2 in input[i+1..]) of the two outer loops,
\* as 1-based positions of the slice
Pairings(m) == {p \in (1..m) \X (1..m) : p[1] < p[2]}

\* The rng's part in one round robin: for every pairing, how many of its
\* num_games_per_series games wins_against decides for team1 (the table
\* depends on nothing else of the draws); these are taken to be the first
\* outcome[p] games of the pairing.
Outcomes(m, g) == [Pairings(m) -> 0..g]

\* the index whose entry game c of pairing p increments
GameWinner(slice, outcome, p, c) ==
    IF c <= outcome[p] THEN slice[p[1]].index ELSE slice[p[2]].index

\* num_games_won after the three loops: an entry for every index of the
\* slice, holding the number of games it won
PlayRoundRobin(slice, g, outcome) ==
    [idx \in {slice[i].index : i \in 1..Len(slice)} |->
        Cardinality({pc2 \in Pairings(Len(slice)) \X (1..g) :
                        GameWinner(slice, outcome, pc2[1], pc2[2]) = idx})]

\* the key without its minus sign: an ascending sort
SortKeyAscending(team, won) == won[team.index]

\* the key of input.sort_by_key
SortKey(team, won) == 0 - won[team.index]

\* the position (1-based) sort_by_key gives element i: it is a stable sort,
\* so i stands behind the elements of smaller key and behind the earlier
\* elements of equal key
SortedPosition(teams, won, i) ==
    Cardinality({j \in 1..Len(teams) :
                    \/ SortKey(teams[j], won) < SortKey(teams[i], won)
                    \/ SortKey(teams[j], won) = SortKey(teams[i], won) /\ j < i})
    + 1

sort_by_key(teams, won) ==
    [r \in 1..Len(teams) |->
        teams[CHOOSE i \in 1..Len(teams) : SortedPosition(teams, won, i) = r]]

\* tiebreak slicing input[..=tie.end_index]: the start of the run is dropped
TieSpanFromStart(span, tie) ==
    [lo |-> span.lo, hi |-> span.lo + tie.end_index, outer |-> FALSE]

\* &mut input[tie.start_index..=tie.end_index] of the slice at span, as a
\* span of the whole buffer
TieSpan(span, tie) ==
    [lo |-> span.lo + tie.start_index, hi |-> span.lo + tie.end_index,
     outer |-> FALSE]

\* the buffer with positions span.lo..=span.hi replaced by slice
Splice(buf, span, slice) ==
    [i \in 1..Len(buf) |->
        IF span.lo + 1 <= i /\ i <= span.hi + 1 THEN slice[i - span.lo] ELSE buf[i]]

WholeSpan(buf) == [lo |-> 0, hi |-> Len(buf) - 1, outer |-> TRUE]

(***************************************************************************)
(* component.rs: BestOfN and the component types                            *)
(***************************************************************************)
BestOfType(tag, n) == [tag |-> tag, n |-> n]
GroupStageType(g) == [tag |-> "GroupStage", n |-> g]

IsBestOf(t) == t.tag \in {"BestOf1", "BestOf3", "BestOf5", "BestOf7", "BestOfN"}

\* Component::run's dispatch: the num_games of the BestOfN it builds
NumGames(t) ==
    CASE t.tag = "BestOf1" -> 1
      [] t.tag = "BestOf3" -> 3
      [] t.tag = "BestOf5" -> 5
      [] t.tag = "BestOf7" -> 7
      [] OTHER -> t.n

\* swap with its first assignment only: slot 0 is overwritten, slot 1 kept
SwapOverwrites(s) == [s EXCEPT ![1] = s[2]]

\* input.swap(0, 1)
swap(s) == [s EXCEPT ![1] = s[2], ![2] = s[1]]

\* rng.gen_range(0.0..=1.0) > total, for the draw u / UDen
DrawExceedsTotal(u, total, n) ==
    BigLess(BigMul(total, UDen), BigMul(BigPow(ProbDen, n), u))

\* BestOfN::run past its assertion, for the draw u / UDen
BestOfRun(s, n, u) ==
    LET p == probability_to_win_against(s[1], s[2])
        total == Total(p, ProbDen, n)
    IN  IF DrawExceedsTotal(u, total, n) THEN swap(s) ELSE s

(***************************************************************************)
(* Values of the variables a specification does not use.                    *)
(***************************************************************************)
NoType == [tag |-> "none", n |-> 0]
NoCall == [fn |-> "none", args |-> <<>>]
NoScore == [all_teams |-> 0, strong_team |-> 0]

RunnerIdle ==
    /\ tournament = [components |-> <<>>, scoring |-> <<>>]
    /\ components = <<>>
    /\ scoring = <<>>
    /\ placements = <<>>
    /\ stage = 0
    /\ entrants = <<>>
    /\ outputs = <<>>
    /\ trials = 0
    /\ score = NoScore

StageIdle ==
    /\ ctype = NoType
    /\ input = <<>>
    /\ orig = <<>>
    /\ pending = <<>>
    /\ num_games_won = <<>>
    /\ lastRun = "none"
    /\ replays = 0

PureIdle ==
    /\ call = NoCall
    /\ ret = <<>>

(***************************************************************************)
(* Component::run on its own: a component of any type is run once on any    *)
(* slice of up to MaxTeams competitors (a group stage: as far as its round   *)
(* robin stays within MaxRoundRobinGames).                                  *)
(***************************************************************************)
ComponentTypes ==
    {BestOfType(tag, 0) : tag \in {"BestOf1", "BestOf3", "BestOf5", "BestOf7"}}
    \cup {BestOfType("BestOfN", n) : n \in 1..MaxSeriesGames}
    \cup {GroupStageType(g) : g \in 1..MaxGamesPerSeries}

\* The index patterns of m competitors up to renaming: competitor k carries
\* either an index seen before it or the next unused one (a plan may hand
\* the same placement to a stage twice).
IndexPatterns(m) ==
    {f \in [1..m -> 0..(m - 1)] :
        \A k \in 1..m :
            f[k] <= (IF k = 1 THEN 0 ELSE MaxOf({f[j] : j \in 1..(k - 1)}) + 1)}

\* The slices of m competitors, at most one index being the strong one
Slices(m) ==
    {[i \in 1..m |-> Team(f[i], f[i] = st)] :
        f \in IndexPatterns(m), st \in -1..(m - 1)}

\* a group stage of m competitors plays no more than MaxRoundRobinGames
FitsRoundRobin(t, m) ==
    t.tag = "GroupStage" => t.n * ((m * (m - 1)) \div 2) <= MaxRoundRobinGames

\* the state in which Component::run(self = t, input = s) starts
EnterComponent(t, s) ==
    /\ ctype' = t
    /\ input' = s
    /\ orig' = s
    /\ pending' = IF t.tag = "GroupStage" THEN <<WholeSpan(s)>> ELSE <<>>
    /\ num_games_won' = <<>>
    /\ lastRun' = "none"
    /\ replays' = 0
    /\ ties' = <<>>

InitStage ==
    /\ RunnerIdle /\ PureIdle
    /\ pc = "call"
    /\ panic = "none"
    /\ ctype \in ComponentTypes
    /\ \E m \in 0..MaxTeams : input \in Slices(m)
    /\ FitsRoundRobin(ctype, Len(input))
    /\ orig = input
    /\ pending = IF ctype.tag = "GroupStage" THEN <<WholeSpan(input)>> ELSE <<>>
    /\ num_games_won = <<>>
    /\ lastRun = "none"
    /\ replays = 0
    /\ ties = <<>>

\* BestOfN::run: the assertion, the draw, the swap
RunBestOf ==
    /\ pc = "call"
    /\ IsBestOf(ctype)
    /\ IF Len(input) # 2
       THEN /\ pc' = "panicked"
            /\ panic' = "assertion failed: input.len() == 2"
            /\ input' = input
       ELSE /\ \E u \in 0..UDen : input' = BestOfRun(input, NumGames(ctype), u)
            /\ pc' = "returned"
            /\ panic' = panic
    /\ UNCHANGED <<ctype, orig, pending, num_games_won, lastRun, replays, ties>>
    /\ UNCHANGED runnerVars
    /\ UNCHANGED pureVars

\* whether the ties of a slice of m competitors are one run holding them all
CompleteTie(t, m) ==
    Len(t) = 1 /\ t[1].start_index = 0 /\ t[1].end_index = m - 1

\* One call of GroupStage::run, on the next span it is due on: the round
\* robin, the sort, and tiebreak's identify_tied_teams; the calls tiebreak
\* makes on the tied runs become due, in its order, before the rest.
\* (span, slice, won, srt and t are the locals of the call, each bound to
\* its one value.)
GroupRun ==
    /\ pc \in {"call", "group"}
    /\ ctype.tag = "GroupStage"
    /\ pending # <<>>
    /\ \E span \in {Head(pending)} :
       \E slice \in {SubSeq(input, span.lo + 1, span.hi + 1)} :
       \E outcome \in Outcomes(Len(slice), ctype.n) :
       \E won \in {PlayRoundRobin(slice, ctype.n, outcome)} :
       \E srt \in {sort_by_key(slice, won)} :
       \E t \in {identify_tied_teams(srt, won)} :
          /\ input' = Splice(input, span, srt)
          /\ ties' = t
          /\ pending' = [i \in 1..Len(t) |-> TieSpan(span, t[i])]
                            \o Tail(pending)
          /\ num_games_won' = IF span.outer THEN won ELSE num_games_won
          /\ lastRun' = IF CompleteTie(t, Len(slice))
                        THEN "complete" ELSE "decisive"
          /\ replays' = IF CompleteTie(t, Len(slice)) /\ replays < MaxReplays
                        THEN replays + 1 ELSE replays
    /\ pc' = "group"
    /\ UNCHANGED <<ctype, orig, panic>>
    /\ UNCHANGED runnerVars
    /\ UNCHANGED pureVars

\* the outermost GroupStage::run returns: no call is due any more
GroupReturn ==
    /\ pc = "group"
    /\ ctype.tag = "GroupStage"
    /\ pending = <<>>
    /\ pc' = "returned"
    /\ UNCHANGED <<ctype, input, orig, pending, num_games_won, lastRun,
                   replays, ties, panic>>
    /\ UNCHANGED runnerVars
    /\ UNCHANGED pureVars

NextStage == RunBestOf \/ GroupRun \/ GroupReturn

SpecStage == InitStage /\ [][NextStage]_vars

\* A group stage keeps executing: a call of GroupStage::run that is due is
\* made, and a run with no call due returns.
FairSpecStage == SpecStage /\ WF_vars(GroupRun) /\ WF_vars(GroupReturn)

(***************************************************************************)
(* identify_tied_teams on its own: any slice of up to MaxLen teams and any  *)
(* table of win counts up to MaxWins.  A debug build stops at               *)
(* debug_assert!(sorted(..)) when the slice is not sorted; a release build  *)
(* has no such check.                                                       *)
(***************************************************************************)
InitTies ==
    /\ RunnerIdle /\ PureIdle
    /\ pc = "ties_call"
    /\ panic = "none"
    /\ ctype = NoType
    /\ \E m \in 0..MaxLen : \E f \in IndexPatterns(m) :
          /\ input = [i \in 1..m |-> Team(f[i], FALSE)]
          /\ num_games_won \in [{f[i] : i \in 1..m} -> 0..MaxWins]
    /\ orig = input
    /\ pending = <<>>
    /\ lastRun = "none"
    /\ replays = 0
    /\ ties = <<>>

IdentifyTies ==
    /\ pc = "ties_call"
    /\ ties' = identify_tied_teams(input, num_games_won)
    /\ pc' = "ties_done"
    /\ UNCHANGED <<ctype, input, orig, pending, num_games_won, lastRun,
                   replays, panic>>
    /\ UNCHANGED runnerVars
    /\ UNCHANGED pureVars

IdentifyTiesDebugAssert ==
    /\ pc = "ties_call"
    /\ ~sorted(input, num_games_won)
    /\ pc' = "panicked"
    /\ panic' = "assertion failed: sorted(teams, num_games_won)"
    /\ UNCHANGED <<ctype, input, orig, pending, num_games_won, lastRun,
                   replays, ties>>
    /\ UNCHANGED runnerVars
    /\ UNCHANGED pureVars

NextTies == IdentifyTies \/ IdentifyTiesDebugAssert

SpecTies == InitTies /\ [][NextTies]_vars

(***************************************************************************)
(* The pure functions on their own: binomial, the sum of BestOfN::run for   *)
(* p = a/b and for 1 - p, and probability_to_win_against in both            *)
(* directions.  Each behaviour applies one function to one argument list.   *)
(***************************************************************************)
InitMath ==
    /\ RunnerIdle /\ StageIdle /\ PureIdle
    /\ ties = <<>>
    /\ pc = "pure"
    /\ panic = "none"

CallBinomial ==
    /\ pc = "pure"
    /\ \E n \in 0..MaxGames : \E k \in 0..n :
          /\ call' = [fn |-> "binomial", args |-> <<n, k>>]
          /\ ret' = [value |-> binomial(n, k),
                     overflow |-> binomialOverflows(n, k)]
    /\ pc' = "pure_done"
    /\ UNCHANGED <<panic, ties>>
    /\ UNCHANGED runnerVars
    /\ UNCHANGED stageVars

CallMajority ==
    /\ pc = "pure"
    /\ \E n \in 1..MaxGames : \E b \in 1..MaxDen : \E a \in 0..b :
          /\ call' = [fn |-> "majority", args |-> <<a, b, n>>]
          /\ ret' = [p |-> Total(a, b, n), q |-> Total(b - a, b, n)]
    /\ pc' = "pure_done"
    /\ UNCHANGED <<panic, ties>>
    /\ UNCHANGED runnerVars
    /\ UNCHANGED stageVars

CallProbability ==
    /\ pc = "pure"
    /\ \E sa \in BOOLEAN : \E sb \in BOOLEAN :
          /\ call' = [fn |-> "probability_to_win_against", args |-> <<sa, sb>>]
          /\ ret' = [ab |-> probability_to_win_against(Team(0, sa), Team(1, sb)),
                     ba |-> probability_to_win_against(Team(1, sb), Team(0, sa))]
    /\ pc' = "pure_done"
    /\ UNCHANGED <<panic, ties>>
    /\ UNCHANGED runnerVars
    /\ UNCHANGED stageVars

NextMath == CallBinomial \/ CallMajority \/ CallProbability

SpecMath == InitMath /\ [][NextMath]_vars

(***************************************************************************)
(* component.rs: placement names                                            *)
(***************************************************************************)
Ordinals == <<"1st", "2nd", "3rd", "4th", "5th", "6th", "7th", "8th">>

Resolved(c, p) == [ok |-> TRUE, component |-> c, position |-> p, panic |-> "none"]
Panicked(msg) == [ok |-> FALSE, component |-> 0, position |-> 0, panic |-> msg]

\* GroupStage::get_placement_index_from_placement_name
GroupPlacementIndex(placement) ==
    IF \E i \in 1..Len(Ordinals) : Ordinals[i] = placement
    THEN Resolved(0, (CHOOSE i \in 1..Len(Ordinals) : Ordinals[i] = placement) - 1)
    ELSE Panicked("Unknown group placement")

\* Component::get_placement_index_from_placement_name
get_placement_index_from_placement_name(t, placement) ==
    IF IsBestOf(t)
    THEN CASE placement = "winner" -> Resolved(0, 0)
           [] placement = "loser" -> Resolved(0, 1)
           [] OTHER -> Panicked("Wrong placement name")
    ELSE GroupPlacementIndex(placement)

(***************************************************************************)
(* main.rs: the definition and the entrants                                 *)
(***************************************************************************)
\* TeamIdentifier::Team(num) and TeamIdentifier::FromPreviousComponent
RawTeam(num) ==
    [kind |-> "Team", num |-> num, placement |-> "", component |-> ""]
FromPreviousComponent(placement, component) ==
    [kind |-> "From", num |-> 0, placement |-> placement, component |-> component]

StageDef(name, t, teams) == [name |-> name, type |-> t, teams |-> teams]

\* Tournament::num_teams: the Team(_) identifiers of all components, counted
num_teams(t) ==
    LET raw(j) == Cardinality({i \in 1..Len(t.components[j].teams) :
                                   t.components[j].teams[i].kind = "Team"})
    IN  SumOver(1..Len(t.components), [j \in 1..Len(t.components) |-> raw(j)])

\* get_teams(num, rng) with the rng choosing entrant st as the strong one
get_teams(num, st) == [i \in 1..num |-> Team(i - 1, i - 1 = st)]

(***************************************************************************)
(* runner.rs: Runner::new                                                   *)
(***************************************************************************)
\* the position (0-based) of the first component of that name, or -1
FindComponent(t, name) ==
    IF \E j \in 1..Len(t.components) : t.components[j].name = name
    THEN MinOf({j \in 1..Len(t.components) : t.components[j].name = name}) - 1
    ELSE -1

\* Runner::named_placement_to_placement
named_placement_to_placement(t, team) ==
    IF team.kind = "Team" THEN Resolved(0, team.num)
    ELSE LET index == FindComponent(t, team.component)
         IN  IF index < 0 THEN Panicked("Component not found")
             ELSE LET r == get_placement_index_from_placement_name(
                               t.components[index + 1].type, team.placement)
                  IN  IF r.ok THEN Resolved(index + 1, r.position) ELSE r

\* the components and the scoring Runner::new builds, slots still carrying
\* their resolution result
ResolvedComponents(t) ==
    [j \in 1..Len(t.components) |->
        [type |-> t.components[j].type,
         teams |-> [i \in 1..Len(t.components[j].teams) |->
                       named_placement_to_placement(t, t.components[j].teams[i])]]]

ResolvedScoring(t) ==
    [i \in 1..Len(t.scoring) |->
        [placement |-> named_placement_to_placement(t, t.scoring[i].team),
         score |-> t.scoring[i].score]]

\* every resolution of Runner::new in the order it makes them
RECURSIVE Flatten(_)
Flatten(ss) == IF ss = <<>> THEN <<>> ELSE Head(ss) \o Flatten(Tail(ss))

Resolutions(t) ==
    Flatten([j \in 1..Len(t.components) |-> ResolvedComponents(t)[j].teams])
    \o [i \in 1..Len(t.scoring) |-> ResolvedScoring(t)[i].placement]

\* the message of the first resolution that panics, or "none"
FirstPanic(rs) ==
    IF \A i \in 1..Len(rs) : rs[i].ok THEN "none"
    ELSE rs[MinOf({i \in 1..Len(rs) : ~rs[i].ok})].panic

PlacementOf(r) == [component |-> r.component, position |-> r.position]

(***************************************************************************)
(* The definitions the model reads: one or two stages named "a" and "b",    *)
(* over three raw entrants, with references that resolve, that name no      *)
(* stage, that name a placement the stage's kind does not have, that point  *)
(* forward or at the stage itself, and stages of every small arity.         *)
(***************************************************************************)
RunnerTypes == {BestOfType("BestOf1", 0), GroupStageType(1)}

PlacementWords == {"winner", "1st", "3rd"}

TeamsA ==
    { <<RawTeam(0), RawTeam(1)>>,
      <<RawTeam(0), RawTeam(1), RawTeam(2)>>,
      <<RawTeam(0), RawTeam(0)>>,
      <<RawTeam(1), RawTeam(2)>>,
      <<FromPreviousComponent("winner", "b"), RawTeam(0)>>,
      <<FromPreviousComponent("loser", "a"), RawTeam(0)>>,
      <<FromPreviousComponent("winner", "a"), FromPreviousComponent("loser", "a")>>,
      <<FromPreviousComponent("winner", "x"), RawTeam(0)>> }

TeamsB ==
    { <<FromPreviousComponent(w, "a"), RawTeam(2)>> : w \in PlacementWords }
    \cup { <<FromPreviousComponent("winner", "a"), FromPreviousComponent("loser", "a")>>,
           <<FromPreviousComponent("1st", "a"), FromPreviousComponent("2nd", "a")>>,
           <<FromPreviousComponent("1st", "a"), FromPreviousComponent("2nd", "a"),
             RawTeam(2)>> }

ScoringEntries ==
    { [team |-> FromPreviousComponent(w, c), score |-> 1] :
          w \in PlacementWords, c \in {"a", "b"} }

Tournaments ==
    { [components |-> <<StageDef("a", ta, sa)>>, scoring |-> <<e>>] :
          ta \in RunnerTypes, sa \in TeamsA, e \in ScoringEntries }
    \cup
    { [components |-> <<StageDef("a", ta, sa), StageDef("b", tb, sb)>>,
       scoring |-> <<e>>] :
          ta \in RunnerTypes, sa \in TeamsA, tb \in RunnerTypes, sb \in TeamsB,
          e \in ScoringEntries }

(***************************************************************************)
(* runner.rs and main.rs: the program                                       *)
(***************************************************************************)
Init ==
    /\ StageIdle /\ PureIdle
    /\ ties = <<>>
    /\ tournament \in Tournaments
    /\ pc = "start"
    /\ panic = "none"
    /\ components = <<>>
    /\ scoring = <<>>
    /\ placements = <<>>
    /\ stage = 0
    /\ entrants = <<>>
    /\ outputs = <<>>
    /\ trials = 0
    /\ score = NoScore

\* Runner::new(tournament)
New ==
    /\ pc = "start"
    /\ LET msg == FirstPanic(Resolutions(tournament))
       IN  IF msg # "none"
           THEN /\ pc' = "panicked"
                /\ panic' = msg
                /\ UNCHANGED <<components, scoring>>
           ELSE /\ pc' = "ready"
                /\ panic' = panic
                /\ components' =
                      [j \in 1..Len(tournament.components) |->
                          [type |-> ResolvedComponents(tournament)[j].type,
                           teams |-> [i \in 1..Len(ResolvedComponents(tournament)[j].teams) |->
                                         PlacementOf(ResolvedComponents(tournament)[j].teams[i])]]]
                /\ scoring' =
                      [i \in 1..Len(tournament.scoring) |->
                          [placement |-> PlacementOf(ResolvedScoring(tournament)[i].placement),
                           score |-> ResolvedScoring(tournament)[i].score]]
    /\ placements' = <<>>
    /\ UNCHANGED <<tournament, stage, entrants, outputs, trials, score, ties>>
    /\ UNCHANGED stageVars
    /\ UNCHANGED pureVars

\* One more trial: get_teams, then get_score_result up to the loop of
\* Runner::run.  run_tournament_for_file calls it on a clone of the runner
\* it built (reuse = FALSE: the clone's table is empty); reuse = TRUE is a
\* further call on the Runner value that ran the trial before.
BeginTrial ==
    /\ pc = "ready"
    /\ trials < MaxTrials
    /\ IF num_teams(tournament) = 0
       THEN /\ pc' = "panicked"
            /\ panic' = "called Option::unwrap() on a None value"
            /\ UNCHANGED <<placements, entrants, stage, outputs, trials>>
       ELSE /\ \E st \in 0..(num_teams(tournament) - 1) : \E reuse \in BOOLEAN :
                  /\ entrants' = get_teams(num_teams(tournament), st)
                  /\ placements' = Append(IF reuse THEN placements ELSE <<>>,
                                          entrants')
            /\ stage' = 0
            /\ outputs' = <<>>
            /\ trials' = trials + 1
            /\ pc' = "run"
            /\ panic' = panic
    /\ UNCHANGED <<tournament, components, scoring, score, ties>>
    /\ UNCHANGED stageVars
    /\ UNCHANGED pureVars

\* self.placements[team.component][team.position] is within the table
InRange(table, pl) ==
    /\ pl.component < Len(table)
    /\ pl.position < Len(table[pl.component + 1])

ReadPlacement(table, pl) == table[pl.component + 1][pl.position + 1]

\* Runner::run: the next component's teams_this_component are collected and
\* component.run is entered
CallComponent ==
    /\ pc = "run"
    /\ stage < Len(components)
    /\ LET comp == components[stage + 1]
       IN  IF \A i \in 1..Len(comp.teams) : InRange(placements, comp.teams[i])
           THEN /\ EnterComponent(comp.type,
                      [i \in 1..Len(comp.teams) |->
                          ReadPlacement(placements, comp.teams[i])])
                /\ pc' = "call"
                /\ panic' = panic
           ELSE /\ pc' = "panicked"
                /\ panic' = "index out of bounds"
                /\ UNCHANGED <<ctype, input, orig, pending, num_games_won,
                               lastRun, replays, ties>>
    /\ UNCHANGED runnerVars
    /\ UNCHANGED pureVars

\* Runner::run: self.placements.push(teams_this_component)
PushOutcome ==
    /\ pc = "returned"
    /\ stage < Len(components)
    /\ placements' = Append(placements, input)
    /\ outputs' = Append(outputs, input)
    /\ stage' = stage + 1
    /\ pc' = "run"
    /\ UNCHANGED <<tournament, components, scoring, entrants, trials, score,
                   panic, ties>>
    /\ UNCHANGED stageVars
    /\ UNCHANGED pureVars

\* the position the program is in when get_score_result reads the scoring
AtScoring == pc = "run" /\ stage = Len(components)

ScoreOf(table, entry) ==
    [all_teams |-> entry.score,
     strong_team |-> IF ReadPlacement(table, entry.placement).strong
                     THEN entry.score ELSE 0]

\* get_score_result past self.run: the sum over self.scoring
ReadScoring ==
    /\ AtScoring
    /\ IF \A i \in 1..Len(scoring) : InRange(placements, scoring[i].placement)
       THEN /\ score' =
                  [all_teams |->
                      SumOver(1..Len(scoring),
                              [i \in 1..Len(scoring) |->
                                  ScoreOf(placements, scoring[i]).all_teams]),
                   strong_team |->
                      SumOver(1..Len(scoring),
                              [i \in 1..Len(scoring) |->
                                  ScoreOf(placements, scoring[i]).strong_team])]
            /\ pc' = "ready"
            /\ panic' = panic
       ELSE /\ pc' = "panicked"
            /\ panic' = "index out of bounds"
            /\ score' = score
    /\ UNCHANGED <<tournament, components, scoring, placements, stage,
                   entrants, outputs, trials, ties>>
    /\ UNCHANGED stageVars
    /\ UNCHANGED pureVars

Next ==
    \/ New
    \/ BeginTrial
    \/ CallComponent
    \/ RunBestOf
    \/ GroupRun
    \/ GroupReturn
    \/ PushOutcome
    \/ ReadScoring

Spec == Init /\ [][Next]_vars

(***************************************************************************)
(* Properties.                                                              *)
(***************************************************************************)
IsPermutation(s, t) ==
    /\ Len(s) = Len(t)
    /\ \A x \in Range(s) \cup Range(t) : Count(s, x) = Count(t, x)

DistinctIndices(s) ==
    \A i, j \in 1..Len(s) : s[i].index = s[j].index => i = j

\* C1: while and after Component::run works on a slice, the slice is a
\* permutation of what it was handed (same length, same competitors with
\* their index and strong flag), at every level of the tie-break; a BestOfN
\* that returns leaves its 2 competitors in the input order or swapped.
C1_RunPermutesInput ==
    /\ pc \in {"group", "returned"} => IsPermutation(input, orig)
    /\ (pc = "returned" /\ IsBestOf(ctype)) =>
          /\ Len(input) = 2
          /\ input = orig \/ input = <<orig[2], orig[1]>>

\* a group stage of 3 has returned and its tie-break changed the order the
\* outermost sort had produced
C1_Witness ==
    /\ pc = "returned"
    /\ ctype.tag = "GroupStage"
    /\ Len(input) = 3
    /\ DistinctIndices(orig)
    /\ input # orig
    /\ input # sort_by_key(orig, num_games_won)

\* (s, e) is a maximal run of at least 2 equal win counts of the slice
IsMaximalTiedRun(teams, won, s, e) ==
    /\ s < e
    /\ \A i \in s..e : won[teams[i + 1].index] = won[teams[s + 1].index]
    /\ s = 0 \/ won[teams[s].index] # won[teams[s + 1].index]
    /\ e = Len(teams) - 1 \/ won[teams[e + 2].index] # won[teams[e + 1].index]

\* C2: for a slice sorted by win count descending, identify_tied_teams
\* returns exactly the maximal contiguous runs of length >= 2 of equal win
\* count, left to right and pairwise disjoint, each with its first and last
\* position and its team indices in sequence order.
C2_TiesAreMaximalRuns ==
    (pc = "ties_done" /\ sorted(input, num_games_won)) =>
        /\ \A s, e \in 0..(Len(input) - 1) :
              IsMaximalTiedRun(input, num_games_won, s, e)
              <=> \E i \in 1..Len(ties) :
                     ties[i].start_index = s /\ ties[i].end_index = e
        /\ \A i \in 1..Len(ties) :
              /\ ties[i].start_index < ties[i].end_index
              /\ ties[i].teams =
                    [k \in 1..(ties[i].end_index - ties[i].start_index + 1) |->
                        input[ties[i].start_index + k].index]
        /\ \A i \in 1..(Len(ties) - 1) :
              ties[i].end_index < ties[i + 1].start_index

\* a sorted slice of 4 whose only tie is the middle two
C2_Witness ==
    /\ pc = "ties_done"
    /\ sorted(input, num_games_won)
    /\ Len(input) = 4
    /\ DistinctIndices(input)
    /\ Len(ties) = 1
    /\ ties[1].start_index = 1
    /\ ties[1].end_index = 2

\* row n of Pascal's triangle: the binomial coefficients C(n, 0..n)
RECURSIVE PascalRow(_)
PascalRow(n) ==
    IF n = 0 THEN <<1>>
    ELSE LET r == PascalRow(n - 1)
         IN  [k \in 1..(n + 1) |->
                (IF k = 1 THEN 0 ELSE r[k - 1]) + (IF k = n + 1 THEN 0 ELSE r[k])]

\* C7: for odd n and p = a/b the sum of BestOfN::run for p and the sum for
\* 1 - p add up to 1 (numerators over b^n add up to b^n); for p = 1/2, n = 3
\* the sum is 1/2; and binomial(n, k) is the binomial coefficient, with no
\* product leaving the range of usize.
C7_MajoritySymmetry ==
    /\ (call.fn = "majority" /\ call.args[3] % 2 = 1) =>
          BigAdd(ret.p, ret.q) = BigPow(call.args[2], call.args[3])
    /\ (call.fn = "majority" /\ call.args = <<1, 2, 3>>) =>
          BigMul(ret.p, 2) = BigPow(2, 3)
    /\ call.fn = "binomial" =>
          /\ ~ret.overflow
          /\ ret.value = PascalRow(call.args[1])[call.args[2] + 1]

\* the sums for a series of 15 games at a p that is not 0, 1/2 or 1
C7_Witness ==
    /\ call.fn = "majority"
    /\ call.args[3] = 15
    /\ call.args[1] \notin {0, call.args[2]}
    /\ 2 * call.args[1] # call.args[2]
    /\ ret.p # ret.q

\* C8 as claimed: the rule gives 0.5 + advantage to a strong competitor
\* against a non-strong one, 0.5 - advantage the other way round, and 0.5
\* whenever both flags are equal; p(a, b) + p(b, a) = 1.
C8_RuleSymmetricInFlags ==
    call.fn = "probability_to_win_against" =>
        LET sa == call.args[1]
            sb == call.args[2]
        IN  /\ ret.ab = (IF sa /\ ~sb THEN Half + STRONG_TEAM_ADVANTAGE
                         ELSE IF sb /\ ~sa THEN Half - STRONG_TEAM_ADVANTAGE
                         ELSE Half)
            /\ ret.ab + ret.ba = ProbDen

\* C9: (1) a call of GroupStage::run that leaves at least two distinct win
\* counts hands only strictly shorter slices of its own slice to its
\* recursive calls (the first Len(ties') spans that become due); (2) a
\* group stage returns unless from some point on every call ends in a
\* complete tie; (3) after a complete tie a further call is always due
\* (nothing caps the replays).
C9_TieBreakTerminates ==
    /\ [][(pc' = "group" /\ lastRun' = "decisive" /\ pending # <<>>) =>
            \A i \in 1..Len(ties') :
                /\ Head(pending).lo <= pending'[i].lo
                /\ pending'[i].hi <= Head(pending).hi
                /\ pending'[i].hi - pending'[i].lo
                      < Head(pending).hi - Head(pending).lo]_vars
    /\ (ctype.tag = "GroupStage") =>
            (<>(pc = "returned") \/ <>[](lastRun = "complete"))
    /\ [](lastRun = "complete" => (pc = "group" /\ pending # <<>>))

\* a group stage returned after at least two complete ties
C9_Witness ==
    /\ pc = "returned"
    /\ ctype.tag = "GroupStage"
    /\ replays >= 2
    /\ DistinctIndices(orig)

\* C10: from the outermost sort on, and so when GroupStage::run returns,
\* competitors with distinct indices stand in non-increasing order of
\* their win counts of the outermost round robin (the tie-break never
\* moves one across the boundary of a run of equal counts), and those
\* counts add up to num_games_per_series * m * (m - 1) / 2.
C10_OrderedByOutermostWins ==
    (ctype.tag = "GroupStage" /\ lastRun # "none" /\ DistinctIndices(orig)) =>
        /\ SumOver(DOMAIN num_games_won, num_games_won)
              = ctype.n * ((Len(orig) * (Len(orig) - 1)) \div 2)
        /\ sorted(input, num_games_won)
        /\ [i \in 1..Len(input) |-> num_games_won[input[i].index]]
              = [i \in 1..Len(orig) |->
                    num_games_won[sort_by_key(orig, num_games_won)[i].index]]

\* a group stage of 3 returned; one competitor stands alone ahead of a tied
\* run whose order the tie-break reversed
C10_Witness ==
    /\ pc = "returned"
    /\ ctype.tag = "GroupStage"
    /\ Len(input) = 3
    /\ DistinctIndices(orig)
    /\ num_games_won[input[1].index] > num_games_won[input[2].index]
    /\ num_games_won[input[2].index] = num_games_won[input[3].index]
    /\ input # sort_by_key(orig, num_games_won)

(***************************************************************************)
(* The Runner: what the definition promises of Runner::new and of a trial.  *)
(***************************************************************************)
\* the references of a definition: every slot of every stage, then the scoring
References(t) ==
    Flatten([j \in 1..Len(t.components) |-> t.components[j].teams])
    \o [i \in 1..Len(t.scoring) |-> t.scoring[i].team]

UnknownStageName(t) ==
    \E i \in 1..Len(References(t)) :
        /\ References(t)[i].kind = "From"
        /\ FindComponent(t, References(t)[i].component) < 0

UnknownPlacementName(t) ==
    \E i \in 1..Len(References(t)) :
        /\ References(t)[i].kind = "From"
        /\ FindComponent(t, References(t)[i].component) >= 0
        /\ ~get_placement_index_from_placement_name(
               t.components[FindComponent(t, References(t)[i].component) + 1].type,
               References(t)[i].placement).ok

WrongArity(t) ==
    \E j \in 1..Len(t.components) :
        IsBestOf(t.components[j].type) /\ Len(t.components[j].teams) # 2

\* C3: in a plan Runner::new produced, every input slot of the stage at
\* declaration index j (0-based) has component <= j: it names the entrants
\* or a stage declared earlier, never the stage itself or a later one.
C3_NoForwardReferences ==
    \A jj \in 1..Len(components) :
        \A i \in 1..Len(components[jj].teams) :
            components[jj].teams[i].component <= jj - 1

\* C4: in a trial on a plan Runner::new produced, every placement about to
\* be read - the input slots of the next stage, and the scoring entries once
\* the stages are done - lies within the table and within its entry.
C4_ReadsInRange ==
    pc = "run" =>
        IF stage < Len(components)
        THEN \A i \in 1..Len(components[stage + 1].teams) :
                 InRange(placements, components[stage + 1].teams[i])
        ELSE \A i \in 1..Len(scoring) : InRange(placements, scoring[i].placement)

\* C5: a definition with an unknown stage name, an unknown placement name or
\* an elimination series of an arity other than 2 makes Runner::new fail:
\* no plan is produced from it and no trial step runs on it.
C5_DefinitionErrorsAtConstruction ==
    (UnknownStageName(tournament) \/ UnknownPlacementName(tournament)
        \/ WrongArity(tournament))
    => (pc \in {"start", "panicked"} /\ trials = 0 /\ components = <<>>)

\* C6: whenever the scoring is read, in the first trial and in every later
\* one, also on a Runner value that ran a trial before, the table has
\* stage_count + 1 entries, entry 0 is this trial's entrants and entry j+1
\* the output stage j computed in this trial.
C6_TableIsThisTrials ==
    AtScoring =>
        /\ Len(placements) = Len(components) + 1
        /\ placements[1] = entrants
        /\ \A j \in 1..Len(outputs) : placements[j + 1] = outputs[j]


====
